---- MODULE Spec2Model ----
(***************************************************************************)
(* A model of three scripts of the repository:                             *)
(*   train/utils/merge_annotations.py        (merge of two COCO files)     *)
(*   train/data/fiber/convert_coco_to_masks.py (union / instance masks)    *)
(*   train/data/fiber/copy_fused_images.py   (threaded fused.jpg copier)   *)
(*                                                                         *)
(* A JSON object (a Python dict) is a function whose domain is the set of  *)
(* its keys; a JSON array is a sequence.                                   *)
(***************************************************************************)
EXTENDS Integers, Sequences, FiniteSets, TLC

VARIABLES
    \* merge_annotations.py: main's position, the two loaded files, the
    \* merged dict, whether the categories warning was printed, the output
    \* file and the number of write_json calls
    pc, data_a, data_b, merged, warned, output, writes,
    \* convert_coco_to_masks.py, for one image: main's position, the image's
    \* annotations, the union mask, the instance masks saved so far and the
    \* index of the next annotation of save_instance_masks
    mpc, anns, union_mask, instances, next_ann,
    \* copy_fused_images.py: main's position, the files found, the copy
    \* tasks, each task's state and the files of the data directory
    cpc, fused_files, copy_args, status, dest

merge_vars == <<pc, data_a, data_b, merged, warned, output, writes>>

mask_vars == <<mpc, anns, union_mask, instances, next_ann>>

copy_vars == <<cpc, fused_files, copy_args, status, dest>>

vars == <<merge_vars, mask_vars, copy_vars>>

(***************************************************************************)
(* Bounds of the model.                                                    *)
(***************************************************************************)
\* ids in the input files range over 0..MaxId
MaxId == 1
\* image and annotation records in the two input files together
MaxItems == 3
\* annotation records in the two input files together
MaxAnnotations == 2
\* annotations of the image whose masks are rendered
MaxMaskAnns == 2
\* pixels of that image (height x width)
NumPixels == 2
\* fused.jpg files under the root directory
MaxFiles == 3

(***************************************************************************)
(* Values.                                                                 *)
(***************************************************************************)
\* A JSON value int() rejects ("abc", null, a list): the model's ids are
\* non-negative, so a negative number is free to stand for it.
NonNumeric == -1

\* The dict with no key.
EmptyDict == [k \in {} |-> 0]

\* No output file on disk.
NoFile == [absent |-> TRUE]

IdVals == 0..MaxId

\* int(value): the identity on the integers, an error on anything else.
IsIntLike(v) == v # NonNumeric

\* d without the key k (dict.pop(k, None)).
Pop(d, k) == [x \in DOMAIN d \ {k} |-> d[x]]

\* d with d[k] = v (the key added when missing).
Put(d, k, v) == [x \in DOMAIN d \cup {k} |-> IF x = k THEN v ELSE d[x]]

(***************************************************************************)
(* The input files the model draws from.                                   *)
(* An image is {id?, file_name}; an annotation is {id?, image_id?, rest}.  *)
(* file_name and rest stand for all the fields the merge never reads; they *)
(* name the record's file and position, so every record is recognisable.   *)
(***************************************************************************)
ImageDicts(tag) ==
    {[file_name |-> tag]} \cup {[id |-> i, file_name |-> tag] : i \in IdVals}

AnnotationDicts(tag) ==
    LET ids  == IdVals \cup {NonNumeric}
        base == {[rest |-> tag]} \cup {[id |-> i, rest |-> tag] : i \in ids}
    IN  base \cup {Put(d, "image_id", i) : d \in base, i \in IdVals}

RECURSIVE ImageLists(_, _)
ImageLists(src, n) ==
    IF n = 0 THEN {<<>>}
    ELSE {Append(s, d) : s \in ImageLists(src, n - 1), d \in ImageDicts(<<src, n>>)}

RECURSIVE AnnotationLists(_, _)
AnnotationLists(src, n) ==
    IF n = 0 THEN {<<>>}
    ELSE {Append(s, d) : s \in AnnotationLists(src, n - 1),
                         d \in AnnotationDicts(<<src, n>>)}

\* Top-level keys besides images and annotations; "extra" is a key the
\* script does not name, "only_b" one that only the second file has.
MetaValues == {"x", "y"}

MetaDictsA ==
    {[k \in K |-> "x"] : K \in SUBSET {"info", "licenses", "categories", "extra"}}

MetaDictsB ==
    UNION {[K -> MetaValues] : K \in SUBSET {"categories", "extra", "only_b"}}

\* The dict meta with images and annotations added.
Dataset(images, annotations, meta) ==
    [k \in DOMAIN meta \cup {"images", "annotations"} |->
        IF k = "images" THEN images
        ELSE IF k = "annotations" THEN annotations
        ELSE meta[k]]

(***************************************************************************)
(* merge_annotations.py                                                    *)
(***************************************************************************)
\* validate_coco_like: the payload has the keys images and annotations.
validate_coco_like(payload) ==
    /\ "images" \in DOMAIN payload
    /\ "annotations" \in DOMAIN payload

\* get_max_id: the largest int(item[key]), 0 when there is none above 0;
\* an item without the key or with a non-numeric value is passed over.
get_max_id(items, key) ==
    LET F[i \in 0..Len(items)] ==
            IF i = 0 THEN 0
            ELSE LET item == items[i]
                 IN  IF key \notin DOMAIN item THEN F[i - 1]
                     ELSE IF ~IsIntLike(item[key]) THEN F[i - 1]
                     ELSE IF item[key] > F[i - 1] THEN item[key]
                     ELSE F[i - 1]
    IN  F[Len(items)]

\* The new id of an image of the second file.
new_image_id(old_id, image_id_offset) == old_id + image_id_offset

\* build_image_id_mapping: raises when an image has no (numeric) id;
\* otherwise the images with their ids moved, and the dict old id -> new id.
build_image_id_mapping(images_b, image_id_offset) ==
    IF \E i \in 1..Len(images_b) :
          \/ "id" \notin DOMAIN images_b[i]
          \/ ~IsIntLike(images_b[i]["id"])
    THEN [ok |-> FALSE]
    ELSE [ok |-> TRUE,
          images |-> [i \in 1..Len(images_b) |->
                        Put(images_b[i], "id",
                            new_image_id(images_b[i]["id"], image_id_offset))],
          map |-> [old \in {images_b[i]["id"] : i \in 1..Len(images_b)} |->
                        new_image_id(old, image_id_offset)]]

\* The checks remap_annotations makes of one annotation before copying it.
annotation_resolves(ann, image_id_map) ==
    /\ "image_id" \in DOMAIN ann
    /\ IsIntLike(ann["image_id"])
    /\ ann["image_id"] \in DOMAIN image_id_map

\* remap_annotation with the bug of leaving image_id as it was.
remap_annotation_stale_image_id(ann, image_id_map, annotation_id_offset) ==
    IF "id" \notin DOMAIN ann THEN ann
    ELSE IF IsIntLike(ann["id"])
         THEN Put(ann, "id", ann["id"] + annotation_id_offset)
         ELSE Pop(ann, "id")

\* The copy remap_annotations makes of one annotation that passed the checks.
remap_annotation(ann, image_id_map, annotation_id_offset) ==
    LET new_ann == Put(ann, "image_id", image_id_map[ann["image_id"]])
    IN  IF "id" \notin DOMAIN ann THEN new_ann
        ELSE IF IsIntLike(ann["id"])
             THEN Put(new_ann, "id", ann["id"] + annotation_id_offset)
             ELSE Pop(new_ann, "id")

\* remap_annotations with the bug of dropping, not refusing, an annotation
\* that fails a check.
remap_annotations_skipping(annotations_b, image_id_map, annotation_id_offset) ==
    LET kept == SelectSeq(annotations_b,
                          LAMBDA ann : annotation_resolves(ann, image_id_map))
    IN  [ok |-> TRUE,
         annotations |-> [i \in 1..Len(kept) |->
             remap_annotation(kept[i], image_id_map, annotation_id_offset)]]

\* remap_annotations: raises at the first annotation that fails a check.
remap_annotations(annotations_b, image_id_map, annotation_id_offset) ==
    IF \E i \in 1..Len(annotations_b) :
          ~annotation_resolves(annotations_b[i], image_id_map)
    THEN [ok |-> FALSE]
    ELSE [ok |-> TRUE,
          annotations |-> [i \in 1..Len(annotations_b) |->
              remap_annotation(annotations_b[i], image_id_map,
                               annotation_id_offset)]]

\* merged_keys with the bug of leaving out the last loop (the other keys).
merged_keys_named_only(a) ==
    (DOMAIN a \cap {"info", "licenses", "categories"})
        \cup {"images", "annotations"}

\* The keys of the merged dict: the named ones of a, images, annotations,
\* and then every other key of a.
merged_keys(a) ==
    (DOMAIN a \cap {"info", "licenses", "categories"})
        \cup {"images", "annotations"}
        \cup DOMAIN a

\* The warning on stderr: both files have categories, and they differ.
categories_differ(a, b) ==
    /\ "categories" \in DOMAIN a
    /\ "categories" \in DOMAIN b
    /\ a["categories"] # b["categories"]

\* concat with the bug of keeping the second file's items only.
concat_without_a(items_a, updated_items_b) == updated_items_b

\* concat with the bug of putting the second file's items first.
concat_b_first(items_a, updated_items_b) == updated_items_b \o items_a

\* merged["images"] and merged["annotations"]
concat(items_a, updated_items_b) == items_a \o updated_items_b

\* merge_instances: [ok |-> FALSE] when it raises.
merge_instances(a, b) ==
    IF ~validate_coco_like(a) \/ ~validate_coco_like(b) THEN [ok |-> FALSE]
    ELSE
    LET max_image_id_a == get_max_id(a["images"], "id")
        max_ann_id_a   == get_max_id(a["annotations"], "id")
        built          == build_image_id_mapping(b["images"], max_image_id_a)
    IN  IF ~built.ok THEN [ok |-> FALSE]
        ELSE
        LET remapped == remap_annotations(b["annotations"], built.map, max_ann_id_a)
        IN  IF ~remapped.ok THEN [ok |-> FALSE]
            ELSE [ok |-> TRUE,
                  warn |-> categories_differ(a, b),
                  value |-> [k \in merged_keys(a) |->
                      IF k = "images" THEN concat(a["images"], built.images)
                      ELSE IF k = "annotations"
                           THEN concat(a["annotations"], remapped.annotations)
                      ELSE a[k]]]

(***************************************************************************)
(* main of merge_annotations.py                                            *)
(***************************************************************************)
MergeInit ==
    /\ pc = "start"
    /\ data_a = EmptyDict
    /\ data_b = EmptyDict
    /\ merged = EmptyDict
    /\ warned = FALSE
    /\ output = NoFile
    /\ writes = 0

\* One of the two paths does not exist: main returns 2.
MainInputNotFound ==
    /\ pc = "start"
    /\ pc' = "exit2"
    /\ UNCHANGED <<data_a, data_b, merged, warned, output, writes>>
    /\ UNCHANGED <<mask_vars, copy_vars>>

\* load_json raises (the file is no JSON): main ends with the exception.
LoadJsonRaises ==
    /\ pc = "start"
    /\ pc' = "crashed"
    /\ UNCHANGED <<data_a, data_b, merged, warned, output, writes>>
    /\ UNCHANGED <<mask_vars, copy_vars>>

\* Both files load: files whose records vary, with no other top-level key.
LoadJsonRecords ==
    /\ pc = "start"
    /\ \E i, j, k, l \in 0..MaxItems :
          /\ i + j + k + l <= MaxItems
          /\ j + l <= MaxAnnotations
          /\ \E ia \in ImageLists("a", i), aa \in AnnotationLists("a", j),
                ib \in ImageLists("b", k), ab \in AnnotationLists("b", l) :
                /\ data_a' = Dataset(ia, aa, EmptyDict)
                /\ data_b' = Dataset(ib, ab, EmptyDict)
    /\ pc' = "loaded"
    /\ UNCHANGED <<merged, warned, output, writes>>
    /\ UNCHANGED <<mask_vars, copy_vars>>

\* Both files load: files whose top-level keys vary (images and annotations
\* included), the first with one image and one annotation of it, the second
\* with the same or with none.
LoadJsonKeys ==
    /\ pc = "start"
    /\ \E ma \in MetaDictsA, mb \in MetaDictsB, n \in {0, 1},
          da, db \in SUBSET {"images", "annotations"} :
          LET img(src) == <<[id |-> MaxId, file_name |-> <<src, 1>>]>>
              ann(src) == <<[id |-> MaxId, image_id |-> MaxId, rest |-> <<src, 1>>]>>
              file_a == Dataset(img("a"), ann("a"), ma)
              file_b == Dataset(SubSeq(img("b"), 1, n), SubSeq(ann("b"), 1, n), mb)
          IN  /\ data_a' = [x \in DOMAIN file_a \ da |-> file_a[x]]
              /\ data_b' = [x \in DOMAIN file_b \ db |-> file_b[x]]
    /\ pc' = "loaded"
    /\ UNCHANGED <<merged, warned, output, writes>>
    /\ UNCHANGED <<mask_vars, copy_vars>>

\* merged = merge_instances(data_a, data_b) returns.
MergeReturns ==
    /\ pc = "loaded"
    /\ merge_instances(data_a, data_b).ok
    /\ merged' = merge_instances(data_a, data_b).value
    /\ warned' = merge_instances(data_a, data_b).warn
    /\ pc' = "merged"
    /\ UNCHANGED <<data_a, data_b, output, writes>>
    /\ UNCHANGED <<mask_vars, copy_vars>>

\* merge_instances raises ValueError, which main does not catch.
MergeRaises ==
    /\ pc = "loaded"
    /\ ~merge_instances(data_a, data_b).ok
    /\ pc' = "crashed"
    /\ UNCHANGED <<data_a, data_b, merged, warned, output, writes>>
    /\ UNCHANGED <<mask_vars, copy_vars>>

\* write_json(merged, args.output), and main returns 0.
WriteJson ==
    /\ pc = "merged"
    /\ output' = merged
    /\ writes' = writes + 1
    /\ pc' = "done"
    /\ UNCHANGED <<data_a, data_b, merged, warned>>
    /\ UNCHANGED <<mask_vars, copy_vars>>

(***************************************************************************)
(* convert_coco_to_masks.py                                                *)
(*                                                                         *)
(* A mask is the set of its foreground pixels.  A segmentation is          *)
(* [shape, wellformed, px]: shape is what the code tests (a list, a dict   *)
(* whose counts is a list, a dict whose counts is a string, a dict without *)
(* counts, a value that is neither), wellformed whether pycocotools can    *)
(* encode or decode it, px the mask it describes.                          *)
(***************************************************************************)
Pixels == 1..NumPixels

\* Python's None, as the value of dict.get for a missing key.
None == -2

Shapes == {"no_counts", "counts_str", "counts_list", "polygons", "scalar"}

Segmentations ==
    {[shape |-> sh, wellformed |-> TRUE, px |-> m] :
        sh \in {"polygons", "counts_list", "counts_str"}, m \in SUBSET Pixels}
    \cup {[shape |-> sh, wellformed |-> FALSE, px |-> {}] : sh \in Shapes}

\* ann.get(key, None)
Get(ann, key) == IF key \in DOMAIN ann THEN ann[key] ELSE None

\* Python's truth value of an id: None and 0 are false.
Truthy(v) == v # None /\ v # 0

\* Lines 44-46 and 74-76: the try block's value for a segmentation.
\*   raised: frPyObjects refuses it, or segm.get does not exist;
\*   otherwise form is what lands in rle: the list of RLEs frPyObjects
\*   makes of a list, the RLE it makes of a dict with a counts list, or the
\*   segmentation itself, unchecked.
to_rle(segm) ==
    IF segm.shape = "polygons"
    THEN [raised |-> ~segm.wellformed, form |-> "rle_list", px |-> segm.px]
    ELSE IF segm.shape = "scalar"
    THEN [raised |-> TRUE, form |-> "none", px |-> {}]
    ELSE IF segm.shape = "counts_list"
    THEN [raised |-> ~segm.wellformed, form |-> "rle", px |-> segm.px]
    ELSE [raised |-> FALSE,
          form |-> IF segm.shape = "counts_str" /\ segm.wellformed
                   THEN "rle" ELSE "not_rle",
          px |-> segm.px]

\* The rles list of ann_to_mask: one entry per annotation that has a
\* segmentation and whose try block did not raise.
rles_of(annotations) ==
    LET kept == SelectSeq(annotations,
                    LAMBDA ann : /\ "segmentation" \in DOMAIN ann
                                 /\ ~to_rle(ann["segmentation"]).raised)
    IN  [i \in 1..Len(kept) |-> to_rle(kept[i]["segmentation"])]

\* maskUtils.merge(rles) reads obj['counts'] and obj['size'] of every entry:
\* it raises on an entry that is no RLE dict (a list of RLEs, a dict
\* without counts).
merge_raises(rles) == \E i \in 1..Len(rles) : rles[i].form # "rle"

\* ann_to_mask(h, w, anns): [ok |-> FALSE] when it raises.
ann_to_mask(annotations) ==
    IF Len(annotations) = 0 THEN [ok |-> TRUE, mask |-> {}]
    ELSE LET rles == rles_of(annotations)
         IN  IF Len(rles) = 0 THEN [ok |-> TRUE, mask |-> {}]
             ELSE IF merge_raises(rles) THEN [ok |-> FALSE]
             ELSE [ok |-> TRUE,
                   mask |-> UNION {rles[i].px : i \in 1..Len(rles)}]

\* Lines 70-82 of save_instance_masks: the annotation is passed over when it
\* has no segmentation or the try block raises (maskUtils.decode takes an
\* RLE or a list of RLEs).
instance_skipped(ann) ==
    \/ "segmentation" \notin DOMAIN ann
    \/ to_rle(ann["segmentation"]).raised
    \/ to_rle(ann["segmentation"]).form = "not_rle"

\* Lines 83-85: the label of an instance mask.
instance_label(ann) ==
    LET id          == Get(ann, "id")
        instance_id == Get(ann, "instance_id")
        annId       == Get(ann, "annId")
        inst_id     == IF Truthy(id) THEN id
                       ELSE IF Truthy(instance_id) THEN instance_id
                       ELSE annId
    IN  IF inst_id = None
        THEN (IF "category_id" \in DOMAIN ann THEN ann["category_id"] ELSE 0)
        ELSE inst_id

\* The annotations the model draws from: a segmentation or none, and each
\* of the four label keys absent or a number.
LabelDicts ==
    LET Vals == IdVals \cup {None}
    IN  {[k \in {x \in {"id", "instance_id", "annId", "category_id"} :
                    f[x] # None} |-> f[k]] :
            f \in [{"id", "instance_id", "annId", "category_id"} -> Vals]}

RECURSIVE SegmentationLists(_)
SegmentationLists(n) ==
    IF n = 0 THEN {<<>>}
    ELSE {Append(s, d) : s \in SegmentationLists(n - 1),
              d \in {EmptyDict} \cup {[segmentation |-> g] : g \in Segmentations}}

MaskIdle ==
    /\ mpc = "idle"
    /\ anns = <<>>
    /\ union_mask = {}
    /\ instances = <<>>
    /\ next_ann = 1

MaskInit ==
    /\ mpc = "start"
    /\ anns = <<>>
    /\ union_mask = {}
    /\ instances = <<>>
    /\ next_ann = 1

\* coco.loadAnns for the image: annotations whose segmentations vary.
LoadAnnsSegmentations ==
    /\ mpc = "start"
    /\ \E n \in 0..MaxMaskAnns : anns' \in SegmentationLists(n)
    /\ mpc' = "union"
    /\ UNCHANGED <<union_mask, instances, next_ann>>
    /\ UNCHANGED <<merge_vars, copy_vars>>

\* coco.loadAnns for the image: one annotation whose label keys vary.
LoadAnnsLabels ==
    /\ mpc = "start"
    /\ \E d \in LabelDicts,
          g \in {s \in Segmentations : s.shape \in {"counts_str", "counts_list"}
                                       /\ s.px \in {{}, Pixels}} :
          anns' = <<Put(d, "segmentation", g)>>
    /\ mpc' = "union"
    /\ UNCHANGED <<union_mask, instances, next_ann>>
    /\ UNCHANGED <<merge_vars, copy_vars>>

\* mask = ann_to_mask(h, w, anns) returns and the union mask is saved; the
\* instance masks follow when --instance-out is given.
AnnToMaskReturns ==
    /\ mpc = "union"
    /\ ann_to_mask(anns).ok
    /\ union_mask' = ann_to_mask(anns).mask
    /\ \/ mpc' = "instances"
       \/ mpc' = "done"
    /\ UNCHANGED <<anns, instances, next_ann>>
    /\ UNCHANGED <<merge_vars, copy_vars>>

\* ann_to_mask raises, which main does not catch.
AnnToMaskRaises ==
    /\ mpc = "union"
    /\ ~ann_to_mask(anns).ok
    /\ mpc' = "crashed"
    /\ UNCHANGED <<anns, union_mask, instances, next_ann>>
    /\ UNCHANGED <<merge_vars, copy_vars>>

\* One turn of the loop of save_instance_masks.
SaveInstanceMask ==
    /\ mpc = "instances"
    /\ next_ann <= Len(anns)
    /\ IF instance_skipped(anns[next_ann])
       THEN instances' = instances
       ELSE instances' = Append(instances,
                [ann |-> next_ann,
                 label |-> instance_label(anns[next_ann]),
                 mask |-> to_rle(anns[next_ann]["segmentation"]).px])
    /\ next_ann' = next_ann + 1
    /\ UNCHANGED <<mpc, anns, union_mask>>
    /\ UNCHANGED <<merge_vars, copy_vars>>

\* save_instance_masks returns.
SaveInstanceMasksReturns ==
    /\ mpc = "instances"
    /\ next_ann > Len(anns)
    /\ mpc' = "done"
    /\ UNCHANGED <<anns, union_mask, instances, next_ann>>
    /\ UNCHANGED <<merge_vars, copy_vars>>

(***************************************************************************)
(* copy_fused_images.py                                                    *)
(*                                                                         *)
(* A file name is a tuple: <<"p">> is "p", <<"p", 2>> is "p_2".  A found   *)
(* file is [path, parent].  The content of a destination file is the set   *)
(* of the source paths its bytes come from: {} when just opened, {s} when  *)
(* it is a whole copy of s, more when two writers were at it.              *)
(***************************************************************************)
\* max_workers of main
max_workers == 8

ParentNames == {"p", "q"}

\* name_counts[parent_name]
name_count(files, parent_name) ==
    Cardinality({i \in 1..Len(files) : files[i].parent = parent_name})

\* ensure_unique_names: a dict whose keys are the parent names, and
\* name_2 .. name_count for a name found more than once, each mapped to
\* itself.
ensure_unique_names(files) ==
    LET names == {files[i].parent : i \in 1..Len(files)}
        keys  == {<<n>> : n \in names}
                    \cup {<<n, i>> : n \in names, i \in 2..Len(files)}
        made  == {k \in keys : Len(k) = 2 => k[2] <= name_count(files, k[1])}
    IN  [k \in made |-> k]

\* Lines 116-125 of main: the argument tuples of the copy tasks.
build_copy_args(files) ==
    LET unique_names == ensure_unique_names(files)
    IN  [i \in 1..Len(files) |->
            [source |-> files[i].path,
             parent_name |-> files[i].parent,
             unique_name |-> unique_names[<<files[i].parent>>]]]

\* The tasks a worker thread is running.
Running == {i \in DOMAIN status : status[i] = "copying"}

CopyIdle ==
    /\ cpc = "idle"
    /\ fused_files = <<>>
    /\ copy_args = <<>>
    /\ status = <<>>
    /\ dest = EmptyDict

CopyInit ==
    /\ cpc = "start"
    /\ fused_files = <<>>
    /\ copy_args = <<>>
    /\ status = <<>>
    /\ dest = EmptyDict

\* find_fused_jpg_files: the files found, each under a parent directory.
FindFusedJpgFiles ==
    /\ cpc = "start"
    /\ \E n \in 0..MaxFiles : \E parents \in [1..n -> ParentNames] :
          fused_files' = [i \in 1..n |-> [path |-> i, parent |-> parents[i]]]
    /\ cpc' = "found"
    /\ UNCHANGED <<copy_args, status, dest>>
    /\ UNCHANGED <<merge_vars, mask_vars>>

\* No file was found: main returns.
NoFilesFound ==
    /\ cpc = "found"
    /\ Len(fused_files) = 0
    /\ cpc' = "done"
    /\ UNCHANGED <<fused_files, copy_args, status, dest>>
    /\ UNCHANGED <<merge_vars, mask_vars>>

\* main names the files and submits one copy task for each.
SubmitCopyTasks ==
    /\ cpc = "found"
    /\ Len(fused_files) > 0
    /\ copy_args' = build_copy_args(fused_files)
    /\ status' = [i \in 1..Len(fused_files) |-> "pending"]
    /\ cpc' = "copying"
    /\ UNCHANGED <<fused_files, dest>>
    /\ UNCHANGED <<merge_vars, mask_vars>>

\* A worker takes a task: shutil.copy2 opens the destination for writing.
CopyFileOpens(i) ==
    /\ cpc = "copying"
    /\ status[i] = "pending"
    /\ Cardinality(Running) < max_workers
    /\ status' = [status EXCEPT ![i] = "copying"]
    /\ dest' = Put(dest, copy_args[i].unique_name, {})
    /\ UNCHANGED <<cpc, fused_files, copy_args>>
    /\ UNCHANGED <<merge_vars, mask_vars>>

\* shutil.copy2 returns: the destination holds the source's content, or a
\* mix when another task was writing the same file.
CopyFileReturns(i) ==
    /\ cpc = "copying"
    /\ status[i] = "copying"
    /\ status' = [status EXCEPT ![i] = "success"]
    /\ \E others \in SUBSET {copy_args[j].source : j \in
                {k \in Running \ {i} :
                    copy_args[k].unique_name = copy_args[i].unique_name}} :
          dest' = Put(dest, copy_args[i].unique_name,
                      {copy_args[i].source} \cup others)
    /\ UNCHANGED <<cpc, fused_files, copy_args>>
    /\ UNCHANGED <<merge_vars, mask_vars>>

\* shutil.copy2 raises: copy_file returns a failure.
CopyFileFails(i) ==
    /\ cpc = "copying"
    /\ status[i] = "copying"
    /\ status' = [status EXCEPT ![i] = "failed"]
    /\ UNCHANGED <<cpc, fused_files, copy_args, dest>>
    /\ UNCHANGED <<merge_vars, mask_vars>>

\* Every future completed: main prints the summary.
CopySummary ==
    /\ cpc = "copying"
    /\ \A i \in DOMAIN status : status[i] \in {"success", "failed"}
    /\ cpc' = "done"
    /\ UNCHANGED <<fused_files, copy_args, status, dest>>
    /\ UNCHANGED <<merge_vars, mask_vars>>

(***************************************************************************)
(* The specifications, one for each script.                                *)
(***************************************************************************)
Init == MergeInit /\ MaskIdle /\ CopyIdle

Next ==
    \/ MainInputNotFound
    \/ LoadJsonRaises
    \/ LoadJsonRecords
    \/ LoadJsonKeys
    \/ MergeReturns
    \/ MergeRaises
    \/ WriteJson

Spec == Init /\ [][Next]_vars

MergeIdle ==
    /\ pc = "idle"
    /\ data_a = EmptyDict
    /\ data_b = EmptyDict
    /\ merged = EmptyDict
    /\ warned = FALSE
    /\ output = NoFile
    /\ writes = 0

MasksInit == MergeIdle /\ MaskInit /\ CopyIdle

MasksNext ==
    \/ LoadAnnsSegmentations
    \/ LoadAnnsLabels
    \/ AnnToMaskReturns
    \/ AnnToMaskRaises
    \/ SaveInstanceMask
    \/ SaveInstanceMasksReturns

MasksSpec == MasksInit /\ [][MasksNext]_vars

CopierInit == MergeIdle /\ MaskIdle /\ CopyInit

CopierNext ==
    \/ FindFusedJpgFiles
    \/ NoFilesFound
    \/ SubmitCopyTasks
    \/ \E i \in 1..MaxFiles : i \in DOMAIN status /\ CopyFileOpens(i)
    \/ \E i \in 1..MaxFiles : i \in DOMAIN status /\ CopyFileReturns(i)
    \/ \E i \in 1..MaxFiles : i \in DOMAIN status /\ CopyFileFails(i)
    \/ CopySummary

CopierSpec == CopierInit /\ [][CopierNext]_vars

(***************************************************************************)
(* The claims about merge_annotations.py.                                  *)
(***************************************************************************)
\* merge_instances has returned (main is at or past the write).
Returned == pc \in {"merged", "done"}

\* Every id the items carry is a non-negative integer, and no two are equal.
IdsUnique(items) ==
    /\ \A i \in 1..Len(items) : "id" \in DOMAIN items[i] => items[i]["id"] \in Nat
    /\ \A i, j \in 1..Len(items) :
          (i # j /\ "id" \in DOMAIN items[i] /\ "id" \in DOMAIN items[j])
              => items[i]["id"] # items[j]["id"]

\* Every item carries an id.
AllHaveIds(items) == \A i \in 1..Len(items) : "id" \in DOMAIN items[i]

\* The annotation's image_id is the id of one of the images.
ResolvesIn(ann, images) ==
    /\ "image_id" \in DOMAIN ann
    /\ \E i \in 1..Len(images) :
          "id" \in DOMAIN images[i] /\ images[i]["id"] = ann["image_id"]

\* The largest id among the items, 0 when no item carries one.
MaxNumericId(items) ==
    LET S == {items[i]["id"] : i \in {j \in 1..Len(items) :
                 "id" \in DOMAIN items[j] /\ items[j]["id"] \in Nat}}
    IN  IF S = {} THEN 0 ELSE CHOOSE m \in S : \A x \in S : x <= m

\* C1: after a successful merge of two files whose images carry non-negative
\* integer ids, unique within each file, the image ids of the result are
\* pairwise distinct.
C1_ImageIdsDistinct ==
    (/\ Returned
     /\ AllHaveIds(data_a["images"]) /\ IdsUnique(data_a["images"])
     /\ AllHaveIds(data_b["images"]) /\ IdsUnique(data_b["images"]))
        => \A i, j \in 1..Len(merged["images"]) :
              i # j => merged["images"][i]["id"] # merged["images"][j]["id"]

\* C2 as stated: after any successful merge, every annotation of the result
\* has an image_id that is the id of an image of the result.
C2_EveryAnnotationResolves ==
    Returned =>
        \A i \in 1..Len(merged["annotations"]) :
            ResolvesIn(merged["annotations"][i], merged["images"])

\* C2 as amended: after a successful merge of a first file whose annotations
\* all resolve to images of that file, every annotation of the result has
\* an image_id that is the id of an image of the result (the merge checks
\* the second file's annotations only).
C2_ResolvesWhenFirstFileDoes ==
    (/\ Returned
     /\ \A i \in 1..Len(data_a["annotations"]) :
           ResolvesIn(data_a["annotations"][i], data_a["images"]))
        => \A i \in 1..Len(merged["annotations"]) :
              ResolvesIn(merged["annotations"][i], merged["images"])

\* A merge returned with an annotation from each file, the second file's
\* moved to a new image id.
C2_Witness ==
    /\ pc = "merged"
    /\ Len(data_a["annotations"]) > 0
    /\ Len(data_b["annotations"]) > 0
    /\ \A i \in 1..Len(data_a["annotations"]) :
          ResolvesIn(data_a["annotations"][i], data_a["images"])
    /\ merged["annotations"][Len(merged["annotations"])]["image_id"]
          # data_b["annotations"][Len(data_b["annotations"])]["image_id"]

\* C3: after a successful merge of two files whose annotation ids are
\* non-negative integers, unique within each file, the annotation ids of the
\* result are pairwise distinct, and an annotation of the second file
\* without an id has none in the result.
C3_AnnotationIdsDistinct ==
    (/\ Returned
     /\ IdsUnique(data_a["annotations"])
     /\ IdsUnique(data_b["annotations"]))
        => /\ \A i, j \in 1..Len(merged["annotations"]) :
                 (/\ i # j
                  /\ "id" \in DOMAIN merged["annotations"][i]
                  /\ "id" \in DOMAIN merged["annotations"][j])
                     => merged["annotations"][i]["id"] # merged["annotations"][j]["id"]
           /\ \A k \in 1..Len(data_b["annotations"]) :
                 "id" \notin DOMAIN data_b["annotations"][k]
                     => "id" \notin DOMAIN
                           merged["annotations"][Len(data_a["annotations"]) + k]

\* An annotation of the second file lacks image_id or names no image of it.
HasDanglingAnnotation(b) ==
    /\ "annotations" \in DOMAIN b
    /\ \E i \in 1..Len(b["annotations"]) :
          \/ "image_id" \notin DOMAIN b["annotations"][i]
          \/ "images" \notin DOMAIN b
          \/ ~ResolvesIn(b["annotations"][i], b["images"])

\* C4: when an annotation of the second file lacks image_id or names no
\* image of that file, merge_instances raises and nothing is written; in
\* every run write_json runs at most once, and only on the dict a
\* successful merge_instances returned.
C4_DanglingReferenceAborts ==
    /\ writes <= 1
    /\ (writes > 0 \/ output # NoFile)
          => (pc = "done" /\ output = merged /\ ~HasDanglingAnnotation(data_b))
    /\ (pc \in {"merged", "crashed", "done"} /\ HasDanglingAnnotation(data_b))
          => (pc = "crashed" /\ writes = 0 /\ output = NoFile)

\* merge_instances raised on a dangling annotation of the second file, both
\* files being well-formed otherwise.
C4_Witness ==
    /\ pc = "crashed"
    /\ validate_coco_like(data_a)
    /\ validate_coco_like(data_b)
    /\ AllHaveIds(data_b["images"])
    /\ Len(data_b["images"]) > 0
    /\ HasDanglingAnnotation(data_b)

\* C7: the result's images are the first file's, unchanged and in order,
\* followed by the second file's in order with the id moved by the largest
\* image id of the first file; the same for the annotations; nothing is
\* dropped.
C7_OrderPreserved ==
    Returned =>
        LET ia  == data_a["images"]
            ib  == data_b["images"]
            aa  == data_a["annotations"]
            ab  == data_b["annotations"]
            mi  == merged["images"]
            ma  == merged["annotations"]
            off == MaxNumericId(ia)
        IN  /\ Len(mi) = Len(ia) + Len(ib)
            /\ Len(ma) = Len(aa) + Len(ab)
            /\ \A i \in 1..Len(ia) : mi[i] = ia[i]
            /\ \A k \in 1..Len(ib) :
                  mi[Len(ia) + k] = [ib[k] EXCEPT !["id"] = @ + off]
            /\ \A i \in 1..Len(aa) : ma[i] = aa[i]
            /\ \A k \in 1..Len(ab) :
                  /\ ma[Len(aa) + k]["rest"] = ab[k]["rest"]
                  /\ ma[Len(aa) + k]["image_id"] = ab[k]["image_id"] + off
                  /\ DOMAIN ma[Len(aa) + k] \subseteq DOMAIN ab[k]

\* A merge returned with images from both files, two of them from the
\* second, and a non-zero offset.
C7_Witness ==
    /\ pc = "merged"
    /\ Len(data_a["images"]) >= 1
    /\ Len(data_b["images"]) >= 2
    /\ MaxNumericId(data_a["images"]) > 0

\* The merge has no reason to raise: both files have images and
\* annotations, every image of the second has an id, and every annotation
\* of the second names an image of the second.
MergeInputsSound ==
    /\ {"images", "annotations"} \subseteq DOMAIN data_a
    /\ {"images", "annotations"} \subseteq DOMAIN data_b
    /\ AllHaveIds(data_b["images"])
    /\ ~HasDanglingAnnotation(data_b)

\* C8: every top-level key of the result besides images and annotations is
\* a key of the first file with the first file's value, every key of the
\* first file is in the result, no key of the second file alone is, and
\* differing categories do not make the merge raise.
C8_TopLevelKeysFromFirstFile ==
    /\ Returned =>
          /\ \A k \in DOMAIN merged \ {"images", "annotations"} :
                k \in DOMAIN data_a /\ merged[k] = data_a[k]
          /\ DOMAIN data_a \subseteq DOMAIN merged
          /\ \A k \in DOMAIN data_b \ DOMAIN data_a : k \notin DOMAIN merged
          /\ warned <=> ({"categories"} \subseteq DOMAIN data_a \cap DOMAIN data_b
                            /\ data_a["categories"] # data_b["categories"])
    /\ (pc = "crashed" /\ data_b # EmptyDict) => ~MergeInputsSound

\* A merge returned with the warning, the second file having keys and
\* categories of its own, the first file a key the script does not name.
C8_Witness ==
    /\ pc = "merged"
    /\ warned
    /\ "only_b" \in DOMAIN data_b
    /\ "extra" \in DOMAIN data_a
    /\ "info" \in DOMAIN data_a
    /\ merged["categories"] # data_b["categories"]

\* The second file is {images: [], annotations: []}.
SecondFileEmpty == data_b = Dataset(<<>>, <<>>, EmptyDict)

\* C9: merging a first file that has images and annotations with
\* {images: [], annotations: []} succeeds and returns the first file.
C9_EmptySecondFileIsIdentity ==
    (/\ pc \in {"merged", "crashed", "done"}
     /\ SecondFileEmpty
     /\ {"images", "annotations"} \subseteq DOMAIN data_a)
        => (Returned /\ merged = data_a)

\* Such a merge returned, the first file with records and a key the script
\* does not name.
C9_Witness ==
    /\ pc = "merged"
    /\ SecondFileEmpty
    /\ Len(data_a["images"]) > 0
    /\ Len(data_a["annotations"]) > 0
    /\ "extra" \in DOMAIN data_a

(***************************************************************************)
(* The claims about convert_coco_to_masks.py.                              *)
(***************************************************************************)
\* C5: the label of an instance mask is the annotation's id when it has one
\* (0 included), else its instance_id, else its annId, else its
\* category_id, else 0.
C5_LabelFallbackOrder ==
    \A n \in 1..Len(instances) :
        LET ann == anns[instances[n].ann]
        IN  instances[n].label =
                IF "id" \in DOMAIN ann THEN ann["id"]
                ELSE IF "instance_id" \in DOMAIN ann THEN ann["instance_id"]
                ELSE IF "annId" \in DOMAIN ann THEN ann["annId"]
                ELSE IF "category_id" \in DOMAIN ann THEN ann["category_id"]
                ELSE 0

\* The segmentation can be rendered.
Renderable(ann) ==
    /\ "segmentation" \in DOMAIN ann
    /\ ann["segmentation"].wellformed

\* C6: ann_to_mask never raises; it returns the union of the masks of the
\* annotations whose segmentation is well-formed, which is the
\* all-background mask when there is none.
C6_MalformedSegmentationSkipped ==
    /\ mpc # "crashed"
    /\ mpc \in {"instances", "done"} =>
          union_mask = UNION {anns[i]["segmentation"].px :
                                 i \in {j \in 1..Len(anns) : Renderable(anns[j])}}

(***************************************************************************)
(* The claim about copy_fused_images.py.                                   *)
(***************************************************************************)
\* C10: no two copy tasks have the same name, hence the same destination,
\* and once every task is over each file copied with success is, whole, in
\* the destination of its task.
C10_CopyTasksHaveUniqueNames ==
    /\ \A i, j \in 1..Len(copy_args) :
          i # j => copy_args[i].unique_name # copy_args[j].unique_name
    /\ cpc = "done" =>
          \A i \in 1..Len(copy_args) :
              status[i] = "success" =>
                  dest[copy_args[i].unique_name] = {copy_args[i].source}

====
